---------------------------- MODULE Spec2Model ----------------------------
(***************************************************************************)
(* UV shape keys (uvshape_v2.py, the later of the two revisions): a base   *)
(* mesh is deformed toward target meshes matched by UV coordinate.         *)
(*                                                                         *)
(* Numbers.  Python floats are modelled in fixed point:                    *)
(*   - a coordinate is an integer count of 1e-7 units;                     *)
(*   - a weight is an integer count of 1e-7 units (1.0 = WOne);            *)
(*   - a raw UV component is an integer count of 1e-6 units.               *)
(* A mesh stores single precision floats: a stored coordinate is a         *)
(* multiple of F32Step, and writing a computed (double) coordinate to a    *)
(* mesh rounds it to that grid.                                            *)
(* Vertex indices are 1-based here (0-based in the source).                *)
(***************************************************************************)
EXTENDS Integers, Sequences, FiniteSets, TLC

----------------------------------------------------------------------------
(* Program constants *)

\* 1e-6, the significance threshold of deltas (line 194, 211), in 1e-7 units
DeltaEps == 10
\* 1e-6, the threshold below which a weight is skipped (line 173)
ValueEps == 10
\* tolerance = 1e-5 (line 215)
tolerance == 100
\* FloatProperty value: min=-1.0, max=1.0 (lines 46-47); 1.0 in 1e-7 units
WOne == 10000000
\* round(c, 5): a UV key keeps 5 decimals, i.e. multiples of 10 raw UV units
UVStep == 10
\* spacing of the single precision grid of mesh coordinates, in 1e-7 units
F32Step == 10

----------------------------------------------------------------------------
(* Arithmetic *)

Abs(x) == IF x < 0 THEN -x ELSE x

Sign(x) == IF x < 0 THEN -1 ELSE 1

Min2(a, b) == IF a < b THEN a ELSE b

\* n / d for n >= 0, d > 0, rounded to nearest, ties to even (IEEE default)
RoundDivNat(n, d) ==
    LET q == n \div d
        r == n % d
    IN  IF 2 * r < d THEN q
        ELSE IF 2 * r > d THEN q + 1
        ELSE IF q % 2 = 0 THEN q ELSE q + 1

RoundDiv(n, d) == Sign(n) * RoundDivNat(Abs(n), d)

\* delta * value of line 232: the product of a coordinate and a weight, as a
\* coordinate.  |d| * |w| / WOne is computed in pieces that stay below 2^31.
MulW(d, w) ==
    LET ad == Abs(d)
        aw == Abs(w)
        dh == ad \div 10000
        dl == ad % 10000
        wh == aw \div 10000
        wl == aw % 10000
        mid == dh * wl + dl * wh
        mq == mid \div 1000
        mr == mid % 1000
    IN  Sign(d) * Sign(w) *
          (dh * wh * 10 + mq + RoundDivNat(mr * 10000 + dl * wl, WOne))

\* Vector(coord) assigned to vertex.co (line 238): double to single precision
ToFloat32(x) == RoundDiv(x, F32Step) * F32Step

\* FloatProperty(min=-1.0, max=1.0) clamps an assigned value (lines 44-50)
ClampValue(w) == IF w < -WOne THEN -WOne ELSE IF w > WOne THEN WOne ELSE w

\* round(c, 5) of line 134
round5(c) == RoundDiv(c, UVStep) * UVStep

----------------------------------------------------------------------------
(* Sequences *)

RECURSIVE SeqSum(_)
SeqSum(s) == IF s = <<>> THEN 0 ELSE Head(s) + SeqSum(Tail(s))

RECURSIVE SeqMax(_)
SeqMax(s) ==
    IF Len(s) = 1 THEN s[1]
    ELSE LET m == SeqMax(Tail(s)) IN IF s[1] >= m THEN s[1] ELSE m

InSeq(x, s) == \E i \in 1..Len(s) : s[i] = x

RemoveAt(s, i) == [j \in 1..(Len(s) - 1) |-> IF j < i THEN s[j] ELSE s[j + 1]]

RECURSIVE Flatten(_)
Flatten(ss) == IF ss = <<>> THEN <<>> ELSE Head(ss) \o Flatten(Tail(ss))

----------------------------------------------------------------------------
(* Coordinate collections: store_coordinates / get_coordinates *)

\* One item per vertex; item.name = str(tuple(v.co)).  The text of a float
\* tuple reads back (eval) as the same floats, so the item keeps the tuple.
store_coordinates(vertices) == [i \in 1..Len(vertices) |-> [name |-> vertices[i]]]

get_coordinates(coords_collection) ==
    [i \in 1..Len(coords_collection) |-> coords_collection[i].name]

----------------------------------------------------------------------------
(* UV correspondence: get_uv_vertex_map *)

\* Index of the entry of uv_map with key k, 0 if there is none
UVFind(uv_map, k) ==
    IF \E i \in 1..Len(uv_map) : uv_map[i].uv = k
    THEN CHOOSE i \in 1..Len(uv_map) : uv_map[i].uv = k
    ELSE 0

\* Lines 137-141: one loop inserted into the dictionary (insertion ordered)
UVInsert(uv_map, loop) ==
    LET uv_coord == <<round5(loop.uv[1]), round5(loop.uv[2])>>
        vert_idx == loop.vert
        at == UVFind(uv_map, uv_coord)
    IN  IF at # 0
        THEN IF InSeq(vert_idx, uv_map[at].verts)
             THEN uv_map
             ELSE [uv_map EXCEPT ![at].verts = Append(@, vert_idx)]
        ELSE Append(uv_map, [uv |-> uv_coord, verts |-> <<vert_idx>>])

RECURSIVE UVInsertAll(_, _)
UVInsertAll(uv_map, loops) ==
    IF loops = <<>> THEN uv_map
    ELSE UVInsertAll(UVInsert(uv_map, Head(loops)), Tail(loops))

\* A mesh layout is [nverts, has_uv, faces]; faces is a sequence of faces, a
\* face a sequence of loops [uv |-> <<u, v>>, vert |-> index].
get_uv_vertex_map(layout) ==
    IF ~layout.has_uv THEN <<>>
    ELSE UVInsertAll(<<>>, Flatten(layout.faces))

----------------------------------------------------------------------------
(* UpdateUVShapeKeys.execute: delta collection (lines 168-196) *)

\* The scene: the object the panel belongs to, and the other mesh objects
BaseObj == "base"

NoMesh == "none"

\* IsSkipped testing target.value == 0.0, as the first revision did
IsSkipped_ZeroOnly(target) == target.mesh = NoMesh \/ target.value = 0

\* IsSkipped without the test of the weight
IsSkipped_MeshOnly(target) == target.mesh = NoMesh

\* abs(target.value) < 1e-6 (line 173)
IsSkipped(target) == target.mesh = NoMesh \/ Abs(target.value) < ValueEps

\* np.any(np.abs(delta) > 1e-6) (line 194)
Significant(delta) == \E k \in 1..3 : Abs(delta[k]) > DeltaEps

\* The (source_vert, target_vert) pairs of lines 185-190, in iteration order
RECURSIVE Cross(_, _)
Cross(source_verts, target_verts) ==
    IF source_verts = <<>> THEN <<>>
    ELSE [j \in 1..Len(target_verts) |-> <<Head(source_verts), target_verts[j]>>]
         \o Cross(Tail(source_verts), target_verts)

\* MatchedPairs without the test of line 186: a UV key absent from the
\* target is paired with the vertices of the target's first key
RECURSIVE MatchedPairs_IgnoreUV(_, _)
MatchedPairs_IgnoreUV(source_uv_map, target_uv_map) ==
    IF source_uv_map = <<>> \/ target_uv_map = <<>> THEN <<>>
    ELSE LET e == Head(source_uv_map)
             at == UVFind(target_uv_map, e.uv)
         IN  Cross(e.verts, target_uv_map[IF at = 0 THEN 1 ELSE at].verts)
             \o MatchedPairs_IgnoreUV(Tail(source_uv_map), target_uv_map)

RECURSIVE MatchedPairs(_, _)
MatchedPairs(source_uv_map, target_uv_map) ==
    IF source_uv_map = <<>> THEN <<>>
    ELSE LET e == Head(source_uv_map)
             at == UVFind(target_uv_map, e.uv)
         IN  (IF at = 0 THEN <<>> ELSE Cross(e.verts, target_uv_map[at].verts))
             \o MatchedPairs(Tail(source_uv_map), target_uv_map)

\* Lines 191-196 for the pairs of one target, appended to vertex_deltas
RECURSIVE AddDeltas(_, _, _, _, _)
AddDeltas(vertex_deltas, pairs, target_coords, original_coords, value) ==
    IF pairs = <<>> THEN vertex_deltas
    ELSE LET source_vert == Head(pairs)[1]
             target_vert == Head(pairs)[2]
             delta == [k \in 1..3 |->
                         target_coords[target_vert][k] - original_coords[source_vert][k]]
             next == IF Significant(delta)
                     THEN [vertex_deltas EXCEPT
                             ![source_vert].deltas = Append(@, delta),
                             ![source_vert].values = Append(@, value)]
                     ELSE vertex_deltas
         IN  AddDeltas(next, Tail(pairs), target_coords, original_coords, value)

\* target_coords[target_vert] (line 192) raises IndexError past the snapshot;
\* original_coords[source_vert] and vertex_deltas[source_vert] likewise
PairsInRange(pairs, target_coords, original_coords) ==
    \A i \in 1..Len(pairs) :
        /\ pairs[i][1] <= Len(original_coords)
        /\ pairs[i][2] <= Len(target_coords)

\* StoreOriginal storing whether or not store_original is set
StoreOriginal_Always(target, co) ==
    [target EXCEPT !.original_coords = store_coordinates(co[target.mesh]),
                   !.store_original = TRUE]

\* Lines 178-180: the target's coordinates are stored once
StoreOriginal(target, co) ==
    IF target.store_original THEN target
    ELSE [target EXCEPT !.original_coords = store_coordinates(co[target.mesh]),
                        !.store_original = TRUE]

\* Lines 172-196 from target i on.  The result carries the targets (a baseline
\* may have been captured), the collected deltas and whether the loop ran to
\* its end; an IndexError leaves the captures made so far and stops.
RECURSIVE CollectTargets(_, _, _, _, _, _, _)
CollectTargets(i, targets, vertex_deltas, original_coords, source_uv_map, layout, co) ==
    IF i > Len(targets)
    THEN [targets |-> targets, vertex_deltas |-> vertex_deltas, ok |-> TRUE]
    ELSE LET target == targets[i] IN
         IF IsSkipped(target)
         THEN CollectTargets(i + 1, targets, vertex_deltas, original_coords,
                             source_uv_map, layout, co)
         ELSE LET target_uv_map == get_uv_vertex_map(layout[target.mesh])
                  stored == StoreOriginal(target, co)
                  targets2 == [targets EXCEPT ![i] = stored]
                  target_coords == get_coordinates(stored.original_coords)
                  pairs == MatchedPairs(source_uv_map, target_uv_map)
              IN  IF ~PairsInRange(pairs, target_coords, original_coords)
                  THEN [targets |-> targets2, vertex_deltas |-> vertex_deltas,
                        ok |-> FALSE]
                  ELSE CollectTargets(i + 1, targets2,
                                      AddDeltas(vertex_deltas, pairs, target_coords,
                                                original_coords, target.value),
                                      original_coords, source_uv_map, layout, co)

----------------------------------------------------------------------------
(* UpdateUVShapeKeys.execute: blending (lines 198-234) *)

\* GroupInsert with a tolerance of 1e-3 in place of 1e-5
GroupInsert_LooseTolerance(unique_groups, delta, value) ==
    IF \E g \in 1..Len(unique_groups) :
          Abs(delta - unique_groups[g].delta) < 100 * tolerance
    THEN LET g == CHOOSE g \in 1..Len(unique_groups) :
                    /\ Abs(delta - unique_groups[g].delta) < 100 * tolerance
                    /\ \A h \in 1..(g - 1) :
                          ~(Abs(delta - unique_groups[h].delta) < 100 * tolerance)
         IN  [unique_groups EXCEPT ![g].values = Append(@, value)]
    ELSE Append(unique_groups, [delta |-> delta, values |-> <<value>>])

\* Lines 218-226: one (delta, value) pair joins the first group within
\* tolerance of the group's key, or opens a group keyed by its own delta
GroupInsert(unique_groups, delta, value) ==
    IF \E g \in 1..Len(unique_groups) : Abs(delta - unique_groups[g].delta) < tolerance
    THEN LET g == CHOOSE g \in 1..Len(unique_groups) :
                    /\ Abs(delta - unique_groups[g].delta) < tolerance
                    /\ \A h \in 1..(g - 1) :
                          ~(Abs(delta - unique_groups[h].delta) < tolerance)
         IN  [unique_groups EXCEPT ![g].values = Append(@, value)]
    ELSE Append(unique_groups, [delta |-> delta, values |-> <<value>>])

RECURSIVE GroupAll(_, _, _)
GroupAll(unique_groups, dim_deltas, values_array) ==
    IF dim_deltas = <<>> THEN unique_groups
    ELSE GroupAll(GroupInsert(unique_groups, Head(dim_deltas), Head(values_array)),
                  Tail(dim_deltas), Tail(values_array))

\* FinalDelta with the weights of a group added up instead of their maximum
FinalDelta_SumValues(unique_groups) ==
    SeqSum([g \in 1..Len(unique_groups) |->
              MulW(unique_groups[g].delta, SeqSum(unique_groups[g].values))])

\* Lines 229-232: final_delta += delta * max(values)
FinalDelta(unique_groups) ==
    SeqSum([g \in 1..Len(unique_groups) |->
              MulW(unique_groups[g].delta, SeqMax(unique_groups[g].values))])

\* BlendDim without the test of line 211: an axis is blended even when none of
\* its deltas is significant
BlendDim_NoAxisSkip(original, dim_deltas, values_array) ==
    original + FinalDelta(GroupAll(<<>>, dim_deltas, values_array))

\* Lines 207-234 for one vertex and one dimension
BlendDim(original, dim_deltas, values_array) ==
    IF ~(\E j \in 1..Len(dim_deltas) : Abs(dim_deltas[j]) > DeltaEps)
    THEN original
    ELSE original + FinalDelta(GroupAll(<<>>, dim_deltas, values_array))

\* Lines 199-234 for one vertex
BlendVertex(original, data) ==
    IF data.deltas = <<>> THEN original
    ELSE [dim \in 1..3 |->
            BlendDim(original[dim],
                     [j \in 1..Len(data.deltas) |-> data.deltas[j][dim]],
                     data.values)]

Blend(original_coords, vertex_deltas) ==
    [v \in 1..Len(original_coords) |-> BlendVertex(original_coords[v], vertex_deltas[v])]

----------------------------------------------------------------------------
(* UpdateUVShapeKeys.execute as a whole (lines 151-242) *)

\* execute storing the base coordinates on every call, initialized or not
execute_Recapture(s, layout, co) ==
    IF Len(co[BaseObj]) = 0
    THEN [status |-> "CANCELLED", settings |-> s, verts |-> co[BaseObj],
          final_coords |-> <<>>]
    ELSE LET s1 == [s EXCEPT !.base_coords = store_coordinates(co[BaseObj]),
                             !.initialized = TRUE]
             original_coords == get_coordinates(s1.base_coords)
             source_uv_map == get_uv_vertex_map(layout[BaseObj])
             empty == [i \in 1..Len(original_coords) |-> [deltas |-> <<>>, values |-> <<>>]]
             c == CollectTargets(1, s1.targets, empty, original_coords,
                                 source_uv_map, layout, co)
             s2 == [s1 EXCEPT !.targets = c.targets]
             final_coords == Blend(original_coords, c.vertex_deltas)
         IN  IF ~c.ok
             THEN [status |-> "ERROR", settings |-> s2, verts |-> co[BaseObj],
                   final_coords |-> <<>>]
             ELSE [status |-> "FINISHED", settings |-> s2,
                   verts |-> [i \in 1..Len(final_coords) |->
                                [k \in 1..3 |-> ToFloat32(final_coords[i][k])]],
                   final_coords |-> final_coords]

\* s is the settings of the base object: [targets, active_target_index,
\* base_coords, initialized].  The result is the operator's return value (or
\* ERROR for a Python exception), the settings, the positions of the base
\* mesh afterwards and the final_coords array (<<>> when none was computed).
execute(s, layout, co) ==
    IF Len(co[BaseObj]) = 0
    THEN [status |-> "CANCELLED", settings |-> s, verts |-> co[BaseObj],
          final_coords |-> <<>>]
    ELSE LET s1 == IF s.initialized THEN s
                   ELSE [s EXCEPT !.base_coords = store_coordinates(co[BaseObj]),
                                  !.initialized = TRUE]
             original_coords == get_coordinates(s1.base_coords)
             source_uv_map == get_uv_vertex_map(layout[BaseObj])
             empty == [i \in 1..Len(original_coords) |-> [deltas |-> <<>>, values |-> <<>>]]
             c == CollectTargets(1, s1.targets, empty, original_coords,
                                 source_uv_map, layout, co)
             s2 == [s1 EXCEPT !.targets = c.targets]
             final_coords == Blend(original_coords, c.vertex_deltas)
         IN  IF ~c.ok
             THEN [status |-> "ERROR", settings |-> s2, verts |-> co[BaseObj],
                   final_coords |-> <<>>]
             ELSE [status |-> "FINISHED", settings |-> s2,
                   verts |-> [i \in 1..Len(final_coords) |->
                                [k \in 1..3 |-> ToFloat32(final_coords[i][k])]],
                   final_coords |-> final_coords]

----------------------------------------------------------------------------
(* The scene the add-on runs in *)

\* Largest number of bindings added to the list
MaxTargets == 2
\* Largest number of geometry edits and saved deformations, taken together
MaxEvents == 1

Objects == {"base", "T1", "T2"}

TargetObjs == Objects \ {BaseObj}

\* Raw UV coordinates (1e-6 units).  UVa and UVa2 differ by float noise and
\* round to one key; UVa3 rounds to the next key.
UVa == <<0, 0>>
UVa2 == <<4, -3>>
UVa3 == <<6, 0>>
UVb == <<500000, 0>>
UVc == <<0, 500000>>
UVd == <<500000, 500000>>

Loop(uv, vert) == [uv |-> uv, vert |-> vert]

Layout(nverts, has_uv, faces) == [nverts |-> nverts, has_uv |-> has_uv, faces |-> faces]

\* One triangle, every vertex under its own UV key
TriPlain == Layout(3, TRUE, << <<Loop(UVa, 1), Loop(UVb, 2), Loop(UVc, 3)>> >>)
\* The same triangle with float noise in the UVs and another vertex order
TriNoisy == Layout(3, TRUE, << <<Loop(UVb, 2), Loop(UVa2, 1), Loop(UVc, 3)>> >>)
\* Two faces on the same vertices, vertex 1 on a seam (keys UVa and UVd)
TriSeam == Layout(3, TRUE, << <<Loop(UVa, 1), Loop(UVb, 2), Loop(UVc, 3)>>,
                              <<Loop(UVd, 1), Loop(UVc, 3), Loop(UVb, 2)>> >>)
\* Vertices 1 and 2 share the key UVa; UVa3 falls on another key
TriShared == Layout(3, TRUE, << <<Loop(UVa, 1), Loop(UVa2, 2), Loop(UVa3, 3)>> >>)
\* No active UV layer
TriNoUV == Layout(3, FALSE, << <<Loop(UVa, 1), Loop(UVb, 2), Loop(UVc, 3)>> >>)
\* A quad of two triangles; UVc belongs to vertex 4
Quad == Layout(4, TRUE, << <<Loop(UVa, 1), Loop(UVb, 2), Loop(UVc, 4)>>,
                           <<Loop(UVb, 2), Loop(UVd, 3), Loop(UVc, 4)>> >>)

\* Coordinates (1e-7 units): 0.10, 0.34, 0.1003, 0.100003, 1e-6
P010 == 100000 * F32Step
P034 == 340000 * F32Step
P01003 == 100300 * F32Step
P010c == 100003 * F32Step
PTiny == 1 * F32Step

\* The scenes: a layout and the first vertex positions of every object
Scene(lb, cb, l1, c1, l2, c2) ==
    [layout |-> [o \in Objects |-> IF o = BaseObj THEN lb ELSE IF o = "T1" THEN l1 ELSE l2],
     co |-> [o \in Objects |-> IF o = BaseObj THEN cb ELSE IF o = "T1" THEN c1 ELSE c2]]

BaseTri == << <<0, 0, 0>>, <<P010, 0, 0>>, <<0, P010, 0>> >>

\* The scene of the whole add-on's state machine
MainScene ==
    Scene(TriPlain, BaseTri,
          TriNoisy, << <<P010, PTiny, 0>>, <<P010, P034, 0>>, <<0, P010, PTiny>> >>,
          Quad, << <<P034, 0, 0>>, <<P010, 0, P010>>, <<P010, P010, 0>>, <<0, P010, -P010>> >>)

\* The scenes the blend is tried on
Scenes ==
    { Scene(TriPlain, BaseTri,
            TriNoisy, << <<P010, PTiny, 0>>, <<P010, P034, 0>>, <<0, P010, PTiny>> >>,
            Quad, << <<x, 0, 0>>, <<P010, 0, P010>>, <<P010, P010, 0>>, <<0, P010, -P010>> >>)
        : x \in {P034, P01003, P010c} }
    \cup
    { Scene(TriSeam, BaseTri,
            TriShared, << <<P010, 0, 0>>, <<P034, 0, 0>>, <<0, 0, P010>> >>,
            Quad, << <<P010c, 0, 0>>, <<P010, 0, P010>>, <<-P010, 0, 0>>, <<0, P010, 0>> >>),
      Scene(TriShared, BaseTri,
            TriNoUV, << <<P010, 0, 0>>, <<P034, 0, 0>>, <<0, 0, P010>> >>,
            TriSeam, << <<P034, 0, 0>>, <<P010, 0, P010>>, <<0, P010, PTiny>> >>) }

\* Positions an edit can give a vertex
EditPoints == { <<P010, PTiny, P034>> }

\* Vertices an edit can move
EditVerts == {1}

\* Weights a user can enter: 0, 5e-7 and 0.5
Values == {0, ValueEps \div 2, WOne \div 2}

\* Weights entered before a save: 0 and 0.5
CommitValues == {0, WOne \div 2}

\* Weights the blend is tried on: 0, 0.5, 0.8, -1.0 and, out of range, 2.0
BlendValues == {0, WOne \div 2, 8 * (WOne \div 10), -WOne, 2 * WOne}

----------------------------------------------------------------------------
(* State *)

VARIABLES
    layout,     \* per object: the mesh topology and UVs (never changed here)
    co,         \* per object: vertex.co of every vertex of obj.data.vertices
    settings,   \* obj.uv_shape_key_settings of the base object
    last,       \* outcome of the latest UpdateUVShapeKeys.execute
    lastOp,     \* the operation that made the latest step
    edits,      \* number of geometry edits so far
    saves       \* number of saved deformations so far

vars == <<layout, co, settings, last, lastOp, edits, saves>>

\* UVShapeKeyTarget as targets.add() creates it (lines 35-52); the name is
\* read by no operator and is left out
NewTarget == [mesh |-> NoMesh, value |-> 0, store_original |-> FALSE,
              original_coords |-> <<>>]

\* UVShapeKeySettings of a fresh object (lines 54-59)
NewSettings == [targets |-> <<>>, active_target_index |-> 0, base_coords |-> <<>>,
                initialized |-> FALSE]

InitIn(scenes) ==
    /\ \E sc \in scenes : layout = sc.layout /\ co = sc.co
    /\ settings = NewSettings
    /\ last = [status |-> "NONE", final_coords |-> <<>>]
    /\ lastOp = "init"
    /\ edits = 0
    /\ saves = 0

Init == InitIn({MainScene})

InitBlend == InitIn(Scenes)

----------------------------------------------------------------------------
(* Operations.  A world is [settings, co, last]; every operator below maps a
   world to the world it leaves.  The statements of an operator run one after
   the other, each on the world the one before left: CHOOSE y \in { f(x) : x
   \in {e} } : TRUE is f at the value of e, with e computed once. *)

World == [settings |-> settings, co |-> co, last |-> last]

\* bpy.ops.object.update_uv_shape_keys()
RunUpdateOf(w0) ==
    CHOOSE y \in {
        [settings |-> r.settings,
         co |-> [w0.co EXCEPT ![BaseObj] = r.verts],
         last |-> [status |-> r.status, final_coords |-> r.final_coords]]
        : r \in {execute(w0.settings, layout, w0.co)} } : TRUE

RunUpdate(w) == CHOOSE y \in { RunUpdateOf(w0) : w0 \in {w} } : TRUE

\* target.value = v: the property is clamped and mesh_update_callback runs
\* (lines 25-27, 44-50).  An exception inside an update callback is printed
\* by the host and the assignment stands.
AssignValue(w, i, v) ==
    RunUpdate([w EXCEPT !.settings.targets[i].value = ClampValue(v)])

\* target.mesh = m: target_mesh_update_callback (lines 29-33)
AssignMesh(w, i, m) ==
    LET w1 == [w EXCEPT !.settings.targets[i].mesh = m]
    IN  IF m # NoMesh THEN RunUpdate(w1) ELSE w1

\* for target in settings.targets: target.value = 0.0 (lines 279-280, 308-309)
RECURSIVE ZeroValues(_, _)
ZeroValues(w, i) ==
    CHOOSE y \in {
        IF i > Len(w0.settings.targets) THEN w0
        ELSE ZeroValues(AssignValue(w0, i, 0), i + 1)
        : w0 \in {w} } : TRUE

\* AddUVShapeKeyTarget.execute (lines 322-327)
AddExecute(w) ==
    LET targets == Append(w.settings.targets, NewTarget)
    IN  [w EXCEPT !.settings.targets = targets,
                  !.settings.active_target_index = Len(targets) - 1]

\* targets.remove(index): an index outside the collection removes nothing
CollectionRemove(targets, index) ==
    IF index >= 0 /\ index < Len(targets) THEN RemoveAt(targets, index + 1)
    ELSE targets

\* RemoveExecute without the update of line 340
RemoveExecute_NoUpdate(w) ==
    LET targets == CollectionRemove(w.settings.targets, w.settings.active_target_index)
    IN  [w EXCEPT
           !.settings.targets = targets,
           !.settings.active_target_index =
               Min2(w.settings.active_target_index, Len(targets) - 1)]

\* RemoveExecute without the clamp of lines 337-338
RemoveExecute_NoClamp(w) ==
    CHOOSE y \in {
        RunUpdate([w0 EXCEPT
                     !.settings.targets =
                         CollectionRemove(w0.settings.targets,
                                          w0.settings.active_target_index)])
        : w0 \in {w} } : TRUE

\* RemoveUVShapeKeyTarget.execute (lines 334-341)
RemoveExecute(w) ==
    CHOOSE y \in {
        LET targets == CollectionRemove(w0.settings.targets,
                                        w0.settings.active_target_index)
        IN  RunUpdate([w0 EXCEPT
                         !.settings.targets = targets,
                         !.settings.active_target_index =
                             Min2(w0.settings.active_target_index, Len(targets) - 1)])
        : w0 \in {w} } : TRUE

\* SaveUVShapeDeformation.poll (lines 252-258)
SavePoll(s) ==
    \E i \in 1..Len(s.targets) :
        s.targets[i].mesh # NoMesh /\ Abs(s.targets[i].value) > ValueEps

\* SaveExecute without line 276: the deformed coordinates are not stored
SaveExecute_NoStore(w) ==
    CHOOSE y \in {
        IF Len(w0.co[BaseObj]) = 0
        THEN [w0 EXCEPT !.last = [status |-> "CANCELLED", final_coords |-> <<>>]]
        ELSE CHOOSE z \in {
                 IF w1.last.status = "ERROR" THEN w1
                 ELSE RunUpdate(ZeroValues(w1, 1))
                 : w1 \in {RunUpdate(w0)} } : TRUE
        : w0 \in {w} } : TRUE

\* SaveUVShapeDeformation.execute (lines 264-286).  The first update is called
\* from the operator itself: its exception ends the operator.
SaveExecute(w) ==
    CHOOSE y \in {
        IF Len(w0.co[BaseObj]) = 0
        THEN [w0 EXCEPT !.last = [status |-> "CANCELLED", final_coords |-> <<>>]]
        ELSE CHOOSE z \in {
                 IF w1.last.status = "ERROR" THEN w1
                 ELSE LET w2 == [w1 EXCEPT !.settings.base_coords =
                                               store_coordinates(w1.co[BaseObj])]
                      IN  RunUpdate(ZeroValues(w2, 1))
                 : w1 \in {RunUpdate(w0)} } : TRUE
        : w0 \in {w} } : TRUE

\* ResetUVShapeKeys.poll (lines 296-301)
ResetPoll(s) == s.initialized /\ Len(s.targets) > 0

\* ResetUVShapeKeys.execute (lines 303-315)
ResetExecute(w) == RunUpdate(ZeroValues(w, 1))

----------------------------------------------------------------------------
(* Actions *)

Becomes(w, op) ==
    \E w0 \in {w} :
        /\ settings' = w0.settings
        /\ co' = w0.co
        /\ last' = w0.last
        /\ lastOp' = op
        /\ UNCHANGED layout

\* The update operator invoked by itself
Update ==
    /\ Becomes(RunUpdate(World), "update")
    /\ UNCHANGED <<edits, saves>>

\* The weight of a binding is edited
SetValue ==
    \E i \in 1..Len(settings.targets), v \in Values :
        /\ Becomes(AssignValue(World, i, v), "set_value")
        /\ UNCHANGED <<edits, saves>>

\* The mesh of a binding is picked or cleared
SetMesh ==
    \E i \in 1..Len(settings.targets), m \in TargetObjs \cup {NoMesh} :
        /\ Becomes(AssignMesh(World, i, m),
                   IF m = NoMesh THEN "clear_mesh" ELSE "set_mesh")
        /\ UNCHANGED <<edits, saves>>

\* A row of the list is clicked (template_list, lines 361-363)
SelectTarget ==
    \E i \in 0..(Len(settings.targets) - 1) :
        /\ i # settings.active_target_index
        /\ Becomes([World EXCEPT !.settings.active_target_index = i], "select")
        /\ UNCHANGED <<edits, saves>>

AddTarget ==
    /\ Len(settings.targets) < MaxTargets
    /\ Becomes(AddExecute(World), "add")
    /\ UNCHANGED <<edits, saves>>

RemoveTarget ==
    /\ Becomes(RemoveExecute(World), "remove")
    /\ UNCHANGED <<edits, saves>>

\* The save button, enabled by the poll
SaveStep ==
    /\ SavePoll(settings)
    /\ Becomes(SaveExecute(World), "save")
    /\ saves' = saves + 1
    /\ UNCHANGED edits

SaveDeformation ==
    /\ edits + saves < MaxEvents
    /\ SaveStep

Reset ==
    /\ ResetPoll(settings)
    /\ Becomes(ResetExecute(World), "reset")
    /\ UNCHANGED <<edits, saves>>

\* A vertex of some mesh is moved outside the add-on
EditStep ==
    /\ \E o \in Objects : \E v \in EditVerts \cap (1..Len(co[o])) : \E p \in EditPoints :
          /\ co[o][v] # p
          /\ Becomes([World EXCEPT !.co[o][v] = p], "edit")
    /\ edits' = edits + 1
    /\ UNCHANGED saves

EditMesh ==
    /\ edits + saves < MaxEvents
    /\ EditStep

Next ==
    \/ Update
    \/ SetValue
    \/ SetMesh
    \/ SelectTarget
    \/ AddTarget
    \/ RemoveTarget
    \/ SaveDeformation
    \/ Reset
    \/ EditMesh

Spec == Init /\ [][Next]_vars

\* The recompute alone, over more scenes and weights
SetBlendValue ==
    \E i \in 1..Len(settings.targets), v \in BlendValues :
        /\ Becomes(AssignValue(World, i, v), "set_value")
        /\ UNCHANGED <<edits, saves>>

NextBlend ==
    \/ SetBlendValue
    \/ SetMesh
    \/ AddTarget

SpecBlend == InitBlend /\ [][NextBlend]_vars

\* Saving after geometry edits: edits and saves are counted apart, so that a
\* save can follow an edit and an edit a save
SetCommitValue ==
    \E i \in 1..Len(settings.targets), v \in CommitValues :
        /\ Becomes(AssignValue(World, i, v), "set_value")
        /\ UNCHANGED <<edits, saves>>

SaveAfterEdit ==
    /\ saves < MaxEvents
    /\ SaveStep

EditAroundSave ==
    /\ edits < MaxEvents
    /\ EditStep

NextCommit ==
    \/ SetCommitValue
    \/ SetMesh
    \/ AddTarget
    \/ SaveAfterEdit
    \/ EditAroundSave
    \/ Reset

SpecCommit == Init /\ [][NextCommit]_vars

TypeOK ==
    /\ lastOp \in {"init", "update", "set_value", "set_mesh", "clear_mesh", "select", "add",
                   "remove", "save", "reset", "edit"}
    /\ last.status \in {"NONE", "FINISHED", "CANCELLED", "ERROR"}
    /\ Len(settings.targets) <= MaxTargets
    /\ \A o \in Objects : Len(co[o]) = layout[o].nverts

----------------------------------------------------------------------------
(* Notions the properties share *)

\* What a recompute of the present state returns and leaves
Recomputed == execute(settings, layout, co)

\* The present state is the one the latest recompute left, and that recompute
\* ran to its end
Fresh == last.status = "FINISHED" /\ Recomputed.settings = settings
         /\ Recomputed.final_coords = last.final_coords

\* The operations that end with a recompute
RecomputeOps == {"update", "set_value", "set_mesh", "remove", "reset", "save"}

\* A binding with no mesh or a weight below 1e-6 in magnitude, in the words
\* of the properties
Inert(target) == target.mesh = NoMesh \/ Abs(target.value) < ValueEps

\* Indices of the bindings that are not inert
ActiveTargets(s) == {i \in 1..Len(s.targets) : ~Inert(s.targets[i])}

BaseBaseline(s) == get_coordinates(s.base_coords)

TargetBaseline(s, i) == get_coordinates(s.targets[i].original_coords)

BaseMap == get_uv_vertex_map(layout[BaseObj])

TargetMap(s, i) == get_uv_vertex_map(layout[s.targets[i].mesh])

\* Every base UV key has one base vertex and one vertex of target i
KeysOneToOne(s, i) ==
    \A e \in 1..Len(BaseMap) :
        LET at == UVFind(TargetMap(s, i), BaseMap[e].uv)
        IN  /\ Len(BaseMap[e].verts) = 1
            /\ at # 0
            /\ Len(TargetMap(s, i)[at].verts) = 1

\* The (base vertex, target vertex) pairs matched by UV for target i
Matches(s, i) ==
    LET pairs == MatchedPairs(BaseMap, TargetMap(s, i))
    IN  {pairs[j] : j \in 1..Len(pairs)}

\* No base vertex is matched with two different vertices of target i
VertsOneToOne(s, i) ==
    \A p, q \in Matches(s, i) : p[1] = q[1] => p[2] = q[2]

\* The state is fresh and has exactly one active binding, of weight in (0, 1]
OneActive(i) ==
    /\ Fresh
    /\ ActiveTargets(settings) = {i}
    /\ settings.targets[i].value > 0
    /\ settings.targets[i].value <= WOne

\* base + w * (target - base) on axis k for the matched pair p of target i
Lerp(i, p, k) ==
    LET b == BaseBaseline(settings)[p[1]][k]
        t == TargetBaseline(settings, i)[p[2]][k]
    IN  b + MulW(t - b, settings.targets[i].value)

AxisDelta(i, p, k) ==
    TargetBaseline(settings, i)[p[2]][k] - BaseBaseline(settings)[p[1]][k]

----------------------------------------------------------------------------
(* C1 *)

\* C1 as stated: with one active binding of weight w in (0, 1] and every base
\* UV key carrying one vertex on each side, the output at every matched base
\* vertex is base + w * (target - base) on every axis, whatever the delta.
C1_AsStated ==
    \A i \in 1..Len(settings.targets) :
        (OneActive(i) /\ KeysOneToOne(settings, i)) =>
            \A p \in Matches(settings, i) : \A k \in 1..3 :
                last.final_coords[p[1]][k] = Lerp(i, p, k)

\* C1 amended: with one active binding of weight w in (0, 1], every base UV
\* key carrying one vertex on each side and no base vertex matched with two
\* target vertices, the output at a matched base vertex is
\* base + w * (target - base) on every axis whose delta exceeds 1e-6 in
\* magnitude (the target baseline itself at w = 1.0) and is the base baseline
\* on every other axis.
C1_Lerp ==
    \A i \in 1..Len(settings.targets) :
        (OneActive(i) /\ KeysOneToOne(settings, i) /\ VertsOneToOne(settings, i)) =>
            \A p \in Matches(settings, i) : \A k \in 1..3 :
                /\ Abs(AxisDelta(i, p, k)) > DeltaEps =>
                      /\ last.final_coords[p[1]][k] = Lerp(i, p, k)
                      /\ settings.targets[i].value = WOne =>
                            last.final_coords[p[1]][k] = TargetBaseline(settings, i)[p[2]][k]
                /\ Abs(AxisDelta(i, p, k)) <= DeltaEps =>
                      last.final_coords[p[1]][k] = BaseBaseline(settings)[p[1]][k]

\* A recompute has run with one binding at weight 1.0 over a one-to-one match
\* in which one vertex has a significant delta on one axis and a nonzero
\* insignificant delta on another
C1_Witness ==
    \E i \in 1..Len(settings.targets) :
        /\ OneActive(i) /\ KeysOneToOne(settings, i) /\ VertsOneToOne(settings, i)
        /\ settings.targets[i].value = WOne
        /\ \E p \in Matches(settings, i) : \E k, m \in 1..3 :
              /\ Abs(AxisDelta(i, p, k)) > DeltaEps
              /\ AxisDelta(i, p, m) # 0
              /\ Abs(AxisDelta(i, p, m)) <= DeltaEps

----------------------------------------------------------------------------
(* C2 *)

\* The delta records a recompute of the present state collects per vertex
Collected ==
    CollectTargets(1, settings.targets,
                   [v \in 1..Len(BaseBaseline(settings)) |-> [deltas |-> <<>>, values |-> <<>>]],
                   BaseBaseline(settings), BaseMap, layout, co).vertex_deltas

\* The deltas of vertex v on axis k, in collection order
AxisDeltas(v, k) == [j \in 1..Len(Collected[v].deltas) |-> Collected[v].deltas[j][k]]

\* Greedy grouping stated by itself.  Record j is a representative when it
\* is at least the tolerance away from every earlier representative.
IsRep(d, j) ==
    LET rep[n \in 1..Len(d)] == \A r \in 1..(n - 1) : rep[r] => Abs(d[n] - d[r]) >= tolerance
    IN  rep[j]

\* The representative of record j: the first one nearer than the tolerance
RepOf(d, j) ==
    CHOOSE r \in 1..j :
        /\ IsRep(d, r) /\ Abs(d[j] - d[r]) < tolerance
        /\ \A q \in 1..(r - 1) : ~(IsRep(d, q) /\ Abs(d[j] - d[q]) < tolerance)

\* The largest (signed) weight among the records represented by r
GroupMax(d, w, r) ==
    CHOOSE m \in {w[j] : j \in {j \in 1..Len(d) : RepOf(d, j) = r}} :
        \A j \in 1..Len(d) : RepOf(d, j) = r => w[j] <= m

\* Sum over the groups of (maximum weight) * (representative delta)
GroupedOffset(d, w) ==
    SeqSum([r \in 1..Len(d) |-> IF IsRep(d, r) THEN MulW(d[r], GroupMax(d, w, r)) ELSE 0])

\* C2: after a recompute, for every base vertex and every axis with a delta
\* above 1e-6, the output is the baseline plus the sum over the greedy groups
\* of (signed maximum weight of the group) * (first delta of the group); with
\* two records, deltas at least 1e-5 apart are both applied and nearer ones
\* give the larger weight times the first delta, once.
C2_Blend ==
    Fresh =>
        \A v \in 1..Len(last.final_coords) : \A k \in 1..3 :
            LET d == AxisDeltas(v, k)
                w == Collected[v].values
                off == last.final_coords[v][k] - BaseBaseline(settings)[v][k]
            IN  (\E j \in 1..Len(d) : Abs(d[j]) > DeltaEps) =>
                  /\ off = GroupedOffset(d, w)
                  /\ Len(d) = 2 =>
                        IF Abs(d[1] - d[2]) < tolerance
                        THEN off = MulW(d[1], IF w[1] >= w[2] THEN w[1] ELSE w[2])
                        ELSE off = MulW(d[1], w[1]) + MulW(d[2], w[2])

\* A recompute has blended, on one axis of one vertex, two groups of which
\* one holds two records of different weights, one of them negative
C2_Witness ==
    /\ Fresh
    /\ \E v \in 1..Len(last.final_coords) : \E k \in 1..3 :
          LET d == AxisDeltas(v, k)
              w == Collected[v].values
          IN  /\ \E j \in 1..Len(d) : Abs(d[j]) > DeltaEps
              /\ \E r, q \in 1..Len(d) : r # q /\ IsRep(d, r) /\ IsRep(d, q)
              /\ \E i, j \in 1..Len(d) :
                    /\ i # j /\ RepOf(d, i) = RepOf(d, j)
                    /\ w[i] < 0 /\ w[j] > 0

----------------------------------------------------------------------------
(* C3 *)

\* The weights 0.5 and 0.8
W05 == WOne \div 2
W08 == 8 * (WOne \div 10)

\* The offset a fresh state shows on axis k of vertex v
Offset(v, k) == last.final_coords[v][k] - BaseBaseline(settings)[v][k]

\* Vertex v has, on axis k, exactly the deltas d with the weights 0.5, 0.8
TwoRecords(v, k, d) ==
    /\ AxisDeltas(v, k) = d
    /\ Collected[v].values = <<W05, W08>>

\* C3 as stated: deltas [0.10, 0.34] with weights [0.5, 0.8] give the sum
\* 0.10*0.5 + 0.34*0.8, and deltas [0.10, 0.1003] with the same weights give
\* one group: a single term weighted 0.8.
C3_AsStated ==
    Fresh =>
        \A v \in 1..Len(last.final_coords) : \A k \in 1..3 :
            /\ TwoRecords(v, k, <<P010, P034>>) =>
                  Offset(v, k) = MulW(P010, W05) + MulW(P034, W08)
            /\ TwoRecords(v, k, <<P010, P01003>>) =>
                  Offset(v, k) \in {MulW(P010, W08), MulW(P01003, W08)}

\* C3 amended: deltas [0.10, 0.34] with weights [0.5, 0.8] give the sum
\* 0.10*0.5 + 0.34*0.8; deltas [0.10, 0.1003], which are 3e-4 apart, also
\* form two groups and give 0.10*0.5 + 0.1003*0.8; deltas [0.10, 0.100003],
\* less than 1e-5 apart, form one group and give the single term 0.10*0.8.
C3_Groups ==
    Fresh =>
        \A v \in 1..Len(last.final_coords) : \A k \in 1..3 :
            /\ TwoRecords(v, k, <<P010, P034>>) =>
                  Offset(v, k) = MulW(P010, W05) + MulW(P034, W08)
            /\ TwoRecords(v, k, <<P010, P01003>>) =>
                  Offset(v, k) = MulW(P010, W05) + MulW(P01003, W08)
            /\ TwoRecords(v, k, <<P010, P010c>>) =>
                  Offset(v, k) = MulW(P010, W08)

\* A recompute has blended the deltas [0.10, 0.1003] with weights [0.5, 0.8]
C3_Witness ==
    /\ Fresh
    /\ \E v \in 1..Len(last.final_coords) : \E k \in 1..3 :
          TwoRecords(v, k, <<P010, P01003>>)

\* A recompute has blended the deltas [0.10, 0.34] with weights [0.5, 0.8]
C3_WitnessApart ==
    /\ Fresh
    /\ \E v \in 1..Len(last.final_coords) : \E k \in 1..3 :
          TwoRecords(v, k, <<P010, P034>>)

\* A recompute has blended the deltas [0.10, 0.100003] with weights [0.5, 0.8]
C3_WitnessNear ==
    /\ Fresh
    /\ \E v \in 1..Len(last.final_coords) : \E k \in 1..3 :
          TwoRecords(v, k, <<P010, P010c>>)

----------------------------------------------------------------------------
(* C4 *)

\* C4: when every binding has no mesh or a weight below 1e-6 in magnitude, a
\* recompute of the present state runs to its end and its output, and the base
\* mesh it leaves, are the base baseline on every axis of every vertex.
C4_InactiveIsBaseline ==
    ActiveTargets(settings) = {} =>
        /\ Recomputed.status = "FINISHED"
        /\ Recomputed.final_coords = BaseBaseline(Recomputed.settings)
        /\ Recomputed.verts = BaseBaseline(Recomputed.settings)

\* A recompute has run with no active binding although one binding has a
\* mesh, a nonzero weight below 1e-6 and a baseline that differs from the
\* base baseline, and another binding has a mesh and weight 0
C4_Witness ==
    /\ Fresh
    /\ ActiveTargets(settings) = {}
    /\ last.final_coords = BaseBaseline(settings)
    /\ \E i, j \in 1..Len(settings.targets) :
          /\ settings.targets[i].mesh # NoMesh
          /\ settings.targets[i].value # 0
          /\ settings.targets[i].store_original
          /\ TargetBaseline(settings, i) # BaseBaseline(settings)
          /\ settings.targets[j].mesh # NoMesh
          /\ settings.targets[j].value = 0

----------------------------------------------------------------------------
(* C5 *)

\* The index binding j of the next state had before the step (bindings after
\* a removed one move up by one)
Before(j) ==
    IF /\ lastOp' = "remove"
       /\ settings.active_target_index \in 0..(Len(settings.targets) - 1)
       /\ j > settings.active_target_index
    THEN j + 1
    ELSE j

\* C5: a captured baseline is never recaptured.  In every step the base
\* baseline, once captured, stays as it is unless the step is a save, and is
\* captured from the positions the base mesh has at its first recompute; the
\* baseline of every binding that remains, once captured, stays as it is,
\* whatever the step (recompute, weight, mesh, add, remove, reset, save, edit).
C5_BaselineKept ==
    [][ /\ (settings.initialized /\ lastOp' # "save") =>
              /\ settings'.initialized
              /\ settings'.base_coords = settings.base_coords
        /\ (~settings.initialized /\ settings'.initialized) =>
              settings'.base_coords = store_coordinates(co[BaseObj])
        /\ \A j \in 1..Len(settings'.targets) :
              (Before(j) <= Len(settings.targets)
                 /\ settings.targets[Before(j)].store_original) =>
                  /\ settings'.targets[j].store_original
                  /\ settings'.targets[j].original_coords =
                        settings.targets[Before(j)].original_coords
      ]_vars

\* A recompute has run after the geometry of a target changed: the binding's
\* baseline differs from the live positions of its mesh, and the base baseline
\* is still what the base mesh was at first
C5_Witness ==
    /\ Fresh
    /\ edits = 1
    /\ lastOp \in {"update", "set_value", "set_mesh", "reset", "remove"}
    /\ BaseBaseline(settings) = MainScene.co[BaseObj]
    /\ \E i \in ActiveTargets(settings) :
          /\ settings.targets[i].store_original
          /\ TargetBaseline(settings, i) # co[settings.targets[i].mesh]

----------------------------------------------------------------------------
(* C6 *)

\* Every weight is 0, the base baseline is the shape of the base mesh, a
\* recompute outputs that shape, and a reset leaves positions and base
\* baseline as they are
Committed ==
    /\ \A i \in 1..Len(settings.targets) : settings.targets[i].value = 0
    /\ BaseBaseline(settings) = co[BaseObj]
    /\ RunUpdate(World).last = [status |-> "FINISHED", final_coords |-> co[BaseObj]]
    /\ RunUpdate(World).co = co
    /\ ResetExecute(World).co = co
    /\ ResetExecute(World).settings.base_coords = settings.base_coords

\* C6: a save that completes leaves every weight 0 and the base baseline
\* equal to the deformed shape the recompute produced just before it (the
\* shape the base mesh shows when the save follows a completed recompute);
\* a recompute then outputs that shape and a reset changes no geometry.
C6_SaveThenReset ==
    /\ []((lastOp = "save" /\ last.status = "FINISHED") => Committed)
    /\ [][ (lastOp' = "save" /\ last'.status = "FINISHED") =>
              /\ settings'.base_coords = store_coordinates(RunUpdate(World).co[BaseObj])
              /\ (lastOp \in RecomputeOps /\ last.status = "FINISHED") =>
                    settings'.base_coords = store_coordinates(co[BaseObj])
          ]_vars

\* A save has completed on a deformed mesh, in a run with a geometry edit:
\* two bindings, the base baseline no longer the first shape of the base mesh
C6_Witness ==
    /\ lastOp = "save"
    /\ last.status = "FINISHED"
    /\ edits = 1
    /\ Len(settings.targets) = 2
    /\ \A i \in 1..2 : settings.targets[i].store_original
    /\ BaseBaseline(settings) # MainScene.co[BaseObj]
    /\ Committed

----------------------------------------------------------------------------
(* C7 *)

\* C7: in the state a recompute has left (whether it captured a baseline or
\* not), a second recompute with bindings and meshes untouched ends the same
\* way and gives the same output array, the same mesh positions and the same
\* baselines.
C7_Idempotent ==
    lastOp \in RecomputeOps =>
        LET again == RunUpdate(World)
        IN  /\ again.last = last
            /\ again.co = co
            /\ again.settings = settings

\* A recompute triggered by picking a mesh has captured the four vertices of
\* that mesh and deformed the base mesh
C7_Witness ==
    /\ lastOp = "set_mesh"
    /\ last.status = "FINISHED"
    /\ last.final_coords # BaseBaseline(settings)
    /\ \E i \in ActiveTargets(settings) :
          /\ settings.targets[i].store_original
          /\ Len(settings.targets[i].original_coords) = 4
          /\ TargetBaseline(settings, i) = co[settings.targets[i].mesh]

----------------------------------------------------------------------------
(* C8 *)

\* The settings as they would be had binding k never been added
NeverAdded(k) ==
    [settings EXCEPT !.targets = SubSeq(settings.targets, 1, k - 1)
                                 \o SubSeq(settings.targets, k + 1, Len(settings.targets))]

\* C8: when the selected binding is active and is removed, the recompute that
\* follows ends as, and outputs what, a recompute over the other bindings
\* alone (same weights, same baselines) does, and so does the base mesh; if
\* no other binding is active the output is the base baseline.
C8_RemoveIsNeverAdded ==
    [][ (/\ lastOp' = "remove"
         /\ settings.active_target_index + 1 \in ActiveTargets(settings)) =>
            LET k == settings.active_target_index + 1
                ref == execute(NeverAdded(k), layout, co)
            IN  /\ Len(settings'.targets) = Len(settings.targets) - 1
                /\ last' = [status |-> ref.status, final_coords |-> ref.final_coords]
                /\ co'[BaseObj] = ref.verts
                /\ ActiveTargets(settings) = {k} =>
                      /\ last'.final_coords = get_coordinates(settings'.base_coords)
                      /\ co'[BaseObj] = get_coordinates(settings'.base_coords)
      ]_vars

\* A binding has been removed and the recompute has deformed the base mesh
\* with the one that is left
C8_Witness ==
    /\ lastOp = "remove"
    /\ last.status = "FINISHED"
    /\ Len(settings.targets) = 1
    /\ ActiveTargets(settings) = {1}
    /\ last.final_coords # BaseBaseline(settings)
    /\ co[BaseObj] = last.final_coords

----------------------------------------------------------------------------
(* C9 *)

\* The delta records collected from the bindings that are not inert alone
CollectedFromActive ==
    CollectTargets(1, SelectSeq(settings.targets, LAMBDA t : ~Inert(t)),
                   [v \in 1..Len(BaseBaseline(settings)) |-> [deltas |-> <<>>, values |-> <<>>]],
                   BaseBaseline(settings), BaseMap, layout, co).vertex_deltas

\* Binding j of the next state has another captured flag or another baseline
\* than it had
BaselineChanged(j) ==
    \/ settings'.targets[j].store_original # settings.targets[Before(j)].store_original
    \/ settings'.targets[j].original_coords # settings.targets[Before(j)].original_coords

\* C9: an inert binding (no mesh, or weight below 1e-6 in magnitude) is
\* skipped by a recompute: it adds no delta record, and its captured flag and
\* baseline stay as they are.  A baseline is captured only by a recompute in
\* which the binding has a mesh and a weight of at least 1e-6 and was not
\* captured before, from the live positions of its mesh, and a recompute that
\* runs to its end leaves every such binding captured.
C9_LazyCapture ==
    /\ [](Collected = CollectedFromActive)
    /\ [][ \A j \in 1..Len(settings'.targets) :
             Before(j) <= Len(settings.targets) =>
               /\ (lastOp' \notin {"reset", "save"} /\ Inert(settings'.targets[j])) =>
                     ~BaselineChanged(j)
               /\ BaselineChanged(j) =>
                     /\ ~settings.targets[Before(j)].store_original
                     /\ settings'.targets[j].store_original
                     /\ settings'.targets[j].mesh # NoMesh
                     /\ settings'.targets[j].original_coords =
                           store_coordinates(co[settings'.targets[j].mesh])
                     /\ lastOp' \in {"reset", "save"} => ~Inert(settings.targets[j])
                     /\ lastOp' \notin {"reset", "save"} => ~Inert(settings'.targets[j])
               /\ (lastOp' \in RecomputeOps \ {"reset", "save"}
                     /\ last'.status = "FINISHED" /\ ~Inert(settings'.targets[j])) =>
                     settings'.targets[j].store_original
         ]_vars

\* After an edit of its mesh a binding was captured by a recompute, from the
\* edited positions, while another binding with a mesh and a nonzero weight
\* below 1e-6 is still not captured
C9_Witness ==
    /\ lastOp = "set_value"
    /\ last.status = "FINISHED"
    /\ edits = 1
    /\ \E i, j \in 1..Len(settings.targets) :
          /\ settings.targets[i].mesh # NoMesh
          /\ settings.targets[i].value # 0
          /\ Inert(settings.targets[i])
          /\ ~settings.targets[i].store_original
          /\ settings.targets[i].original_coords = <<>>
          /\ j \in ActiveTargets(settings)
          /\ settings.targets[j].store_original
          /\ TargetBaseline(settings, j) = co[settings.targets[j].mesh]
          /\ TargetBaseline(settings, j) # MainScene.co[settings.targets[j].mesh]

----------------------------------------------------------------------------
(* C10 *)

\* C10: whenever the list of bindings is not empty the active index is an
\* index into it (0 <= index <= length - 1), after a removal as after any
\* other operation, and an operation that appends a binding leaves the
\* index on the appended, last binding.
C10_IndexInRange ==
    /\ [](Len(settings.targets) > 0 =>
             settings.active_target_index \in 0..(Len(settings.targets) - 1))
    /\ [][ Len(settings'.targets) = Len(settings.targets) + 1 =>
             /\ lastOp' = "add"
             /\ settings'.active_target_index = Len(settings'.targets) - 1
             /\ settings'.targets[Len(settings'.targets)] = NewTarget
         ]_vars

\* A removal has left one binding, and the active index is on it
C10_Witness ==
    /\ lastOp = "remove"
    /\ Len(settings.targets) = MaxTargets - 1
    /\ settings.active_target_index = Len(settings.targets) - 1

----------------------------------------------------------------------------
(* C11 *)

\* The vertices of binding i's mesh that share a quantized UV key with base
\* vertex v, read off the two correspondence indexes
PairedWith(i, v) ==
    {tv \in 1..layout[settings.targets[i].mesh].nverts :
        \E e \in 1..Len(BaseMap), f \in 1..Len(TargetMap(settings, i)) :
            /\ BaseMap[e].uv = TargetMap(settings, i)[f].uv
            /\ InSeq(v, BaseMap[e].verts)
            /\ InSeq(tv, TargetMap(settings, i)[f].verts)}

\* Base vertex v gets no delta record: every vertex of an active binding it
\* is paired with lies within 1e-6 of it on every axis
NoRecord(v) ==
    \A i \in ActiveTargets(settings) : \A tv \in PairedWith(i, v) : \A k \in 1..3 :
        Abs(TargetBaseline(settings, i)[tv][k] - BaseBaseline(settings)[v][k]) <= DeltaEps

\* C11: after a recompute that ran to its end, a base vertex that got no
\* delta record (no UV key of it occurs in an active binding's index, or all
\* its paired deltas are at most 1e-6 on every axis) has its base baseline
\* position on all three axes, whatever the weights and the other vertices.
C11_Undeformed ==
    Fresh =>
        \A v \in 1..Len(BaseBaseline(settings)) :
            NoRecord(v) => last.final_coords[v] = BaseBaseline(settings)[v]

\* Under an active binding one base vertex is unmatched and keeps its
\* position while another one is moved
C11_Witness ==
    /\ Fresh
    /\ \E i \in ActiveTargets(settings) : \E v, u \in 1..Len(BaseBaseline(settings)) :
          /\ PairedWith(i, v) = {}
          /\ NoRecord(v)
          /\ last.final_coords[v] = BaseBaseline(settings)[v]
          /\ PairedWith(i, u) # {}
          /\ last.final_coords[u] # BaseBaseline(settings)[u]

\* Under an active binding a base vertex is paired, all its deltas are within
\* 1e-6 and not all are zero, and it keeps its position
C11_WitnessSmallDelta ==
    /\ Fresh
    /\ \E i \in ActiveTargets(settings) : \E v \in 1..Len(BaseBaseline(settings)) :
          /\ NoRecord(v)
          /\ \E tv \in PairedWith(i, v) :
                TargetBaseline(settings, i)[tv] # BaseBaseline(settings)[v]
          /\ last.final_coords[v] = BaseBaseline(settings)[v]

----------------------------------------------------------------------------
(* C12 *)

\* The control operations that can change what the blend produces
ControlOps == {"set_value", "set_mesh", "clear_mesh", "remove", "reset", "save"}

\* C12 as stated: when a weight edit, a mesh reassignment (clearing
\* included), a removal, a reset or a save has returned, the vertices of the
\* base mesh are where a recompute over the base baseline and the present
\* bindings puts them.  Runs with a geometry edit are left aside, so that
\* only the operations themselves can put the mesh out of step; where the
\* recompute raises it leaves the mesh as it is, and the state passes.
C12_InSync ==
    (lastOp \in ControlOps /\ edits = 0) => co[BaseObj] = Recomputed.verts

\* The same for every control operation but the clearing of a mesh
\* reference, geometry edits or not
C12_InSyncUnlessCleared ==
    lastOp \in ControlOps \ {"clear_mesh"} => co[BaseObj] = Recomputed.verts

\* The mesh reference of the only active binding has been cleared: no binding
\* is active, a recompute would restore the base baseline, and the base mesh
\* still shows the deformation
C12_Witness ==
    /\ lastOp = "clear_mesh"
    /\ edits = 0
    /\ settings.initialized
    /\ ActiveTargets(settings) = {}
    /\ Recomputed.status = "FINISHED"
    /\ Recomputed.verts = BaseBaseline(settings)
    /\ co[BaseObj] # BaseBaseline(settings)

----------------------------------------------------------------------------
(* C13 *)

\* The largest vertex index in the correspondence index of binding i's mesh
\* is an index into the binding's baseline
IndexesInSnapshot(i) ==
    \A f \in 1..Len(TargetMap(settings, i)) :
        \A j \in 1..Len(TargetMap(settings, i)[f].verts) :
            TargetMap(settings, i)[f].verts[j] <= Len(TargetBaseline(settings, i))

\* C13 as stated: no recompute fails; the baseline of every active, captured
\* binding covers every vertex index of the mesh the binding references, and
\* it is a snapshot of that mesh (so, in a run without geometry edits, equal
\* to the positions of that mesh).
C13_SnapshotOfMesh ==
    /\ last.status # "ERROR"
    /\ \A i \in ActiveTargets(settings) :
          settings.targets[i].store_original =>
             /\ IndexesInSnapshot(i)
             /\ edits = 0 => TargetBaseline(settings, i) = co[settings.targets[i].mesh]

\* A recompute of the present state fails only over an active, captured
\* binding whose baseline is shorter than the mesh it references
C13_FailsOnlyWhenStale ==
    Recomputed.status = "ERROR" =>
        \E i \in ActiveTargets(settings) :
            /\ settings.targets[i].store_original
            /\ ~IndexesInSnapshot(i)

\* A captured binding was pointed at another mesh with more vertices: its
\* baseline is still the three vertices of the first mesh, and the recompute
\* the reassignment triggered has failed
C13_Witness ==
    /\ lastOp = "set_mesh"
    /\ last.status = "ERROR"
    /\ edits = 0
    /\ \E i \in ActiveTargets(settings) :
          /\ settings.targets[i].store_original
          /\ settings.targets[i].mesh = "T2"
          /\ TargetBaseline(settings, i) = co["T1"]
          /\ Len(TargetBaseline(settings, i)) < layout["T2"].nverts

\* A captured binding was pointed at another mesh with fewer vertices: the
\* recompute runs to its end on the baseline of the first mesh
C13_WitnessSilent ==
    /\ lastOp = "set_mesh"
    /\ last.status = "FINISHED"
    /\ edits = 0
    /\ \E i \in ActiveTargets(settings) :
          /\ settings.targets[i].store_original
          /\ settings.targets[i].mesh = "T1"
          /\ TargetBaseline(settings, i) = co["T2"]

============================================================================
